---- MODULE Spec2Model ----
(***************************************************************************)
(* Public-funeral notice scraper: the scrape / analyze / notify pipeline,  *)
(* the Telegram notifier, the GPT analyzer, the JSON migration and the     *)
(* APScheduler-based scheduler, as state machines.                         *)
(*                                                                         *)
(* Korean identifiers of the source are romanised: the tag names of        *)
(* EXTRACTION_TAGS are written "ireum", "saengnyeonworil", ..., the        *)
(* sentinel "추출 실패" is "chuchul_silpae", and districts are "d1", "d2".  *)
(***************************************************************************)
EXTENDS Integers, Sequences, FiniteSets, TLC

(* ------------------------------ bounds --------------------------------- *)

\* pipeline runs started in one behaviour
MaxRuns == 2
\* edits of the source postings in one behaviour
MaxEdits == 1
\* runs of the migration in one behaviour
MaxMigrations == 2
\* entries of a legacy JSON file
MaxInput == 2
\* the clock stops after this many ticks
MaxTime == 6
\* schedule_interval_minutes, in ticks of the clock
IntervalTicks == 2
\* keys of a reply of the language service
MaxKeys == 2

(* ------------------------- configuration ------------------------------- *)

\* Two of the sixteen districts of DISTRICT_NAMES_ENG_TO_KOR, by Korean name.
DISTRICT_NAMES_KOR_TO_ENG == [d1 |-> "D1", d2 |-> "D2"]

Districts == DOMAIN DISTRICT_NAMES_KOR_TO_ENG

\* The order in which Pipeline.run visits the districts.
DistrictOrder == <<"d1", "d2">>

\* A channel id that is not set (None / empty)
NoChannel == ""

\* district_channels of TelegramConfig: every district has its channel, or (a
\* TELEGRAM_TEST_MODE start without TELEGRAM_TEST_CHANNEL, or a table edited by
\* hand) a district has none.
ChannelConfigs ==
    { [D1 |-> "-4130128744", D2 |-> "-4165065871"],
      [D1 |-> "-4130128744", D2 |-> NoChannel] }

\* TelegramConfig.funeral_main, the combined all-districts channel
funeral_main == "FUNERAL_MAIN"

\* The texts a posting can hold, and their digests (content_hash).
Contents == {"c1", "c2"}

ContentHash(c) == IF c = "c1" THEN "h1" ELSE "h2"

Hashes == {ContentHash(c) : c \in Contents}

(* ------------------------------ helpers -------------------------------- *)

Range(s) == {s[i] : i \in 1..Len(s)}

Max(S) == CHOOSE x \in S : \A y \in S : y <= x

\* The mapping with no key ({} of Python)
EmptyMapping == [k \in {} |-> 0]

\* The ids of the two jobs FuneralScheduler.start registers
JobIds == {"funeral_scraper_periodic", "funeral_scraper_initial"}

(* ------------------------------ notifier ------------------------------- *)

\* What one sendMessage call can end as: the API answers ok; the API answers
\* not-ok; the answer is ok but raise_for_status raises; requests.get raises
\* (timeout, connection error, body that is not JSON).
SendOutcomes == {"ok", "api_not_ok", "http_error", "request_exception"}

\* TelegramService._send_message: True only on the path that reaches the
\* rate-limit sleep; every other path returns False.
SendMessage(outcome) ==
    [ok |-> outcome = "ok", slept |-> outcome = "ok"]

NotifyResult_Or(success1, success2) == success1 \/ success2

NotifyResult_None(success1, success2) == FALSE

\* return success1 and success2
NotifyResult(success1, success2) == success1 /\ success2

FormatFuneralTitle_Swapped(update_count) ==
    IF update_count = 0 THEN "funeral_updated" ELSE "funeral_new"

\* MessageTemplates.format_funeral_title: the template the title is made from
FormatFuneralTitle(update_count) ==
    IF update_count = 0 THEN "funeral_new" ELSE "funeral_updated"

ResolveChannel_Fallback(channels, district_kor) ==
    IF district_kor \in DOMAIN DISTRICT_NAMES_KOR_TO_ENG
       /\ DISTRICT_NAMES_KOR_TO_ENG[district_kor] \in DOMAIN channels
       /\ channels[DISTRICT_NAMES_KOR_TO_ENG[district_kor]] # NoChannel
    THEN channels[DISTRICT_NAMES_KOR_TO_ENG[district_kor]]
    ELSE funeral_main

\* The two lookups send_funeral_notification begins with:
\* DISTRICT_NAMES_KOR_TO_ENG.get(district_kor), then
\* district_channels.get(district_eng); NoChannel when either finds nothing
ResolveChannel(channels, district_kor) ==
    IF district_kor \notin DOMAIN DISTRICT_NAMES_KOR_TO_ENG
    THEN NoChannel
    ELSE LET district_eng == DISTRICT_NAMES_KOR_TO_ENG[district_kor]
         IN IF district_eng \in DOMAIN channels
            THEN channels[district_eng] ELSE NoChannel

\* TelegramService.send_funeral_notification, with the outcomes o1, o2 of the
\* two sendMessage calls it may make.  sends lists the calls it made.
SendFuneralNotification(channels, district_kor, update_count, o1, o2) ==
    LET channel_id == ResolveChannel(channels, district_kor)
    IN IF channel_id = NoChannel
       THEN [result |-> FALSE, sends |-> <<>>]
       ELSE LET title == FormatFuneralTitle(update_count)
                success1 == SendMessage(o1).ok
                success2 == SendMessage(o2).ok
            IN [result |-> NotifyResult(success1, success2),
                sends |-> << [chat |-> channel_id, title |-> title,
                              ok |-> success1],
                             [chat |-> funeral_main, title |-> title,
                              ok |-> success2] >>]

(* ------------------------------ analyzer ------------------------------- *)

\* What one GPTAnalyzer.analyze call can end as: a JSON object is returned by
\* the service; the HTTP request fails; the reply text is not JSON; the reply
\* lacks choices[0].message.content.
AnalyzeOutcomes == {"ok", "request_exception", "json_decode_error", "key_error"}

AnalyzeRaises_Swallowed(outcome) == FALSE

\* GPTAnalyzer.analyze: each except clause logs and re-raises
AnalyzeRaises(outcome) == outcome # "ok"

\* GPTAnalyzer.analyze_raw_data: calls analyze and wraps its result; an
\* exception of analyze passes through.  returned is FALSE when it raised.
AnalyzeRawData(raw_item, outcome) ==
    IF AnalyzeRaises(outcome)
    THEN [returned |-> FALSE, raised |-> outcome]
    ELSE [returned |-> TRUE, raised |-> "none"]

(* ------------------------- persistence boundary ------------------------ *)

VARIABLES
    district_channels,   \* TelegramConfig.district_channels
    source,     \* the text of each district's posting on its website
    edits,      \* how many times a posting was edited
    raw,        \* funeral_raw: records [district, content_hash, update_count]
    analyzed,   \* funeral_analyzed: [content_hash, district, update_count]
    sent,       \* funeral_sent: content hashes
    pc,         \* the stage Pipeline.run is in: idle, raw, analyze, notify
    idx,        \* the position of the stage's loop
    run,        \* pipeline runs started
    lastNotify, \* the last call of send_funeral_notification
    delivered,  \* hashes one attempt delivered to both channels
    cur,        \* what the run in progress (or the last one) did
    prev,       \* what the run before it did
    ingests,    \* per (district, hash): raw-ingestion passes over it (0, 1, 2+)
    migrations, \* runs of the migration started
    legacy,     \* the legacy files DB_RAW.json, DB_ANALYZE.json, DB_SENDED.json
    state,      \* the BlockingScheduler: created, running
    now,        \* the clock, in ticks
    next_run_time,  \* when the periodic job fires next
    initial_due,    \* the job funeral_scraper_initial is stored and due
    instances,  \* per job id, its executions in progress
    log,        \* what the scheduler logged: jobs run, firings skipped
    on_error_calls, \* calls of the on_error callback, and those that failed
    signals,    \* SIGTERM / SIGINT delivered to the process
    handler,    \* _shutdown in the main thread: none, waiting, done, aborted
    begun,      \* jobs started and in progress when the shutdown began
    exited,     \* the process: no, or its exit code
    data,       \* the mapping given to clean_analyzed_data
    cleaned,    \* the mapping it returned
    cleanDone,  \* it was called
    kst,        \* datetime.now(KST): the time of day <<hour, minute, second>>
    elapsed,    \* seconds gone by since the notifier was created
    callers,    \* per thread, its call of send_funeral_notification
    lastOk,     \* when the service's last successful send completed
    scraper,    \* the scraper called: its variant, max_page, the site's pages
    spc,        \* where scrape is: idle, first, list, detail, returned, raised
    last_page,  \* scrape's last_page
    page,       \* the page of scrape's loop
    urls,       \* the detail URLs of the page still to fetch
    results,    \* scrape's results
    requests,   \* the listing pages requested, in order
    contents,   \* the content of each item of results
    parsed,     \* the page scrape parsed last, and what it got from it
    call,       \* the call of HttpClient.get or post: its arguments
    hpc,        \* where the call is: idle, direct, proxy, returned, raised
    kwargs,     \* the keyword arguments handed to the session
    attempts,   \* the requests made through the session, in order
    fetched     \* what the call returned or raised

pipelineVars ==
    <<district_channels, source, edits, raw, analyzed, sent, pc, idx, run,
      lastNotify, delivered, cur, prev, ingests, migrations, legacy>>

stopVars == <<signals, handler, begun, exited>>

schedVars ==
    <<state, now, next_run_time, initial_due, instances, log, on_error_calls,
      stopVars>>

cleanVars == <<data, cleaned, cleanDone>>

notifierVars == <<kst, elapsed, callers, lastOk>>

scraperVars ==
    <<scraper, spc, last_page, page, urls, results, requests, contents, parsed>>

httpVars == <<call, hpc, kwargs, attempts, fetched>>

restVars == <<notifierVars, scraperVars, httpVars>>

vars == <<pipelineVars, schedVars, cleanVars, restVars>>

\* isDuplicateRaw(content, district): keyed by content hash and district
RawExists(store, content, district) ==
    \E i \in 1..Len(store) :
        store[i].content_hash = ContentHash(content) /\ store[i].district = district

\* isAlreadyAnalyzed(contentHash)
IsAlreadyAnalyzed(store, h) == \E i \in 1..Len(store) : store[i].content_hash = h

IsAlreadySent_Never(store, h) == FALSE

\* isAlreadySent(contentHash)
IsAlreadySent(store, h) == \E i \in 1..Len(store) : store[i] = h

\* update_count of a posting being stored: 0 for a new posting, one more than
\* the last stored version of the same posting (same district, same URL) when
\* its text changed.
NextUpdateCount(store, district) ==
    LET versions == {i \in 1..Len(store) : store[i].district = district}
    IN IF versions = {} THEN 0
       ELSE Max({store[i].update_count : i \in versions}) + 1

\* One more raw-ingestion pass over (district, content), counted up to 2.
Ingested(count, district, content) ==
    LET p == <<district, ContentHash(content)>>
    IN IF p \in DOMAIN count
       THEN [count EXCEPT ![p] = IF @ < 2 THEN @ + 1 ELSE @]
       ELSE count

(* ------------------------------ pipeline ------------------------------- *)

\* Raw ingestion of one scraped item: the existence check, then the insert.
IngestRawItem(store, district, content) ==
    IF RawExists(store, content, district)
    THEN store
    ELSE Append(store, [district |-> district,
                        content_hash |-> ContentHash(content),
                        update_count |-> NextUpdateCount(store, district)])

NoRun ==
    [srcEdits |-> 0, full |-> FALSE, sentAtStart |-> {}, analyzedAtStart |-> {},
     deliveredAtStart |-> {}, analyzeCalled |-> {}, analyzeFailed |-> {},
     analyzeOk |-> {}, notifyCalled |-> {}, sendsFor |-> {},
     notifyFailed |-> {}]

\* No legacy files: load_json_file returns {} for each
NoLegacy == [raw |-> <<>>, analyzed |-> <<>>, sent |-> <<>>]

NoNotify ==
    [called |-> FALSE, district |-> "", update_count |-> 0, result |-> FALSE,
     sends |-> <<>>]

\* Nothing stored, no run yet
StoreEmpty ==
    /\ edits = 0
    /\ raw = <<>>
    /\ analyzed = <<>>
    /\ sent = <<>>
    /\ pc = "idle"
    /\ idx = 1
    /\ run = 0
    /\ lastNotify = NoNotify
    /\ delivered = {}
    /\ cur = NoRun
    /\ prev = NoRun
    /\ ingests = [p \in Districts \X Hashes |-> 0]
    /\ migrations = 0

\* The pipeline at rest, for the specifications of the other components
PipelineAtRest ==
    /\ district_channels = [D1 |-> "-4130128744", D2 |-> "-4165065871"]
    /\ source = [d1 |-> "c1", d2 |-> "c2"]
    /\ StoreEmpty
    /\ legacy = NoLegacy

\* No shutdown begun
NotBegun == [started |-> -1, running |-> -1]

\* FuneralScheduler.__init__: the scheduler is created, not started
SchedCreated ==
    /\ state = "created"
    /\ now = 0
    /\ next_run_time = 0
    /\ initial_due = FALSE
    /\ instances = [j \in JobIds |-> 0]
    /\ log = [j \in JobIds |->
                 [started |-> 0, skipped |-> 0, executed |-> 0, errors |-> 0]]
    /\ on_error_calls = [made |-> 0, failed |-> 0]
    /\ signals = 0
    /\ handler = "none"
    /\ begun = NotBegun
    /\ exited = "no"

\* clean_analyzed_data not called
CleanAtRest ==
    /\ data = EmptyMapping
    /\ cleaned = EmptyMapping
    /\ cleanDone = FALSE

Threads == {"t1", "t2"}

\* No call of the notifier made
NoCall ==
    [pc |-> "idle", district |-> "", message |-> "", read |-> <<0, 0, 0>>,
     is_night |-> FALSE, sends |-> <<>>, completed |-> -1, result |-> FALSE, calls |-> 0]

\* TelegramService.__init__: nothing sent
NotifierAtRest ==
    /\ kst = <<12, 0, 0>>
    /\ elapsed = 0
    /\ callers = [th \in Threads |-> NoCall]
    /\ lastOk = -1

\* No page parsed
NothingParsed ==
    [kind |-> "none", container |-> FALSE, page |-> 0, found |-> 0, text |-> ""]

\* No scraper called
ScraperAtRest ==
    /\ scraper = [variant |-> "base", max_page |-> 1, discovered |-> 1]
    /\ spc = "idle"
    /\ last_page = 0
    /\ page = 0
    /\ urls = <<>>
    /\ results = <<>>
    /\ requests = <<>>
    /\ contents = <<>>
    /\ parsed = NothingParsed

\* No call of the HTTP client
NoOutcome == [kind |-> "none", status |-> 0]

HttpAtRest ==
    /\ call = [method |-> "get", force_tor |-> FALSE, enabled |-> TRUE,
               timeout |-> 30]
    /\ hpc = "idle"
    /\ kwargs = EmptyMapping
    /\ attempts = <<>>
    /\ fetched = NoOutcome

RestAtRest ==
    /\ NotifierAtRest
    /\ ScraperAtRest
    /\ HttpAtRest

Init ==
    /\ district_channels \in ChannelConfigs
    /\ source \in [Districts -> Contents]
    /\ StoreEmpty
    /\ legacy = NoLegacy
    /\ SchedCreated
    /\ CleanAtRest
    /\ RestAtRest

\* The website changes a posting's text.  The pipeline reads a posting only
\* when RawStep scrapes its district, so an edit made while a run is in
\* progress is seen exactly as an edit made before that run or after it: the
\* edits are taken between runs.
EditSource ==
    /\ pc = "idle"
    /\ edits < MaxEdits
    /\ \E d \in Districts, c \in Contents :
          /\ source[d] # c
          /\ source' = [source EXCEPT ![d] = c]
    /\ edits' = edits + 1
    /\ UNCHANGED <<district_channels, raw, analyzed, sent, pc, idx, run,
                   lastNotify, delivered, cur, prev, ingests, migrations, legacy, schedVars, cleanVars, restVars>>

\* Pipeline.run(skip_raw) starts: python main.py --once [--skip-raw], or a job
\* of the scheduler when no other run is in progress.
StartRun ==
    /\ pc = "idle"
    /\ run < MaxRuns
    /\ \E skip_raw \in BOOLEAN :
          /\ pc' = IF skip_raw THEN "analyze" ELSE "raw"
          /\ cur' = [NoRun EXCEPT !.srcEdits = edits,
                                  !.full = ~skip_raw,
                                  !.sentAtStart = Range(sent),
                                  !.analyzedAtStart =
                                      {analyzed[i].content_hash : i \in 1..Len(analyzed)},
                                  !.deliveredAtStart = delivered]
    /\ prev' = cur
    /\ run' = run + 1
    /\ idx' = 1
    /\ UNCHANGED <<district_channels, source, edits, raw, analyzed, sent,
                   lastNotify, delivered, ingests, migrations, legacy, schedVars, cleanVars, restVars>>

\* Stage 1, one district: scrape it; store each item that is not a duplicate.
\* A scrape that fails is logged and yields nothing for the district.
RawStep ==
    /\ pc = "raw"
    /\ idx <= Len(DistrictOrder)
    /\ LET d == DistrictOrder[idx]
       IN \E scraped \in BOOLEAN :
             IF scraped
             THEN /\ raw' = IngestRawItem(raw, d, source[d])
                  /\ ingests' = Ingested(ingests, d, source[d])
             ELSE UNCHANGED <<raw, ingests>>
    /\ idx' = idx + 1
    /\ UNCHANGED <<district_channels, source, edits, analyzed, sent, pc, run,
                   lastNotify, delivered, cur, prev, migrations, legacy, schedVars, cleanVars, restVars>>

RawDone ==
    /\ pc = "raw"
    /\ idx > Len(DistrictOrder)
    /\ pc' = "analyze"
    /\ idx' = 1
    /\ UNCHANGED <<district_channels, source, edits, raw, analyzed, sent, run,
                   lastNotify, delivered, cur, prev, ingests, migrations, legacy, schedVars, cleanVars, restVars>>

\* Stage 2, one raw record: skipped when its hash is analyzed already;
\* otherwise analyze_raw_data is called, and the record is stored only when it
\* returned.  A raised error is logged and the loop goes on.
AnalyzeStep ==
    /\ pc = "analyze"
    /\ idx <= Len(raw)
    /\ LET item == raw[idx]
           h == item.content_hash
       IN IF IsAlreadyAnalyzed(analyzed, h)
          THEN UNCHANGED <<analyzed, cur>>
          ELSE \E outcome \in AnalyzeOutcomes :
                  LET r == AnalyzeRawData(item, outcome)
                  IN /\ analyzed' =
                          IF r.returned
                          THEN Append(analyzed, [content_hash |-> h,
                                                 district |-> item.district,
                                                 update_count |-> item.update_count])
                          ELSE analyzed
                     /\ cur' = [cur EXCEPT
                                  !.analyzeCalled = @ \cup {h},
                                  !.analyzeFailed =
                                      IF outcome # "ok" THEN @ \cup {h} ELSE @,
                                  !.analyzeOk =
                                      IF outcome = "ok" THEN @ \cup {h} ELSE @]
    /\ idx' = idx + 1
    /\ UNCHANGED <<district_channels, source, edits, raw, sent, pc, run,
                   lastNotify, delivered, prev, ingests, migrations, legacy, schedVars, cleanVars, restVars>>

AnalyzeDone ==
    /\ pc = "analyze"
    /\ idx > Len(raw)
    /\ pc' = "notify"
    /\ idx' = 1
    /\ UNCHANGED <<district_channels, source, edits, raw, analyzed, sent, run,
                   lastNotify, delivered, cur, prev, ingests, migrations, legacy, schedVars, cleanVars, restVars>>

\* Stage 3, one analyzed record: skipped when its hash is sent already;
\* otherwise notify is called and the hash is marked sent only when it
\* returned true.
NotifyStep ==
    /\ pc = "notify"
    /\ idx <= Len(analyzed)
    /\ LET item == analyzed[idx]
           h == item.content_hash
       IN IF IsAlreadySent(sent, h)
          THEN UNCHANGED <<sent, lastNotify, delivered, cur>>
          ELSE \E o1 \in SendOutcomes, o2 \in SendOutcomes :
                  LET r == SendFuneralNotification(district_channels,
                               item.district, item.update_count, o1, o2)
                      both == /\ Len(r.sends) = 2
                              /\ o1 = "ok"
                              /\ o2 = "ok"
                  IN /\ sent' = IF r.result THEN Append(sent, h) ELSE sent
                     /\ lastNotify' = [called |-> TRUE,
                                       district |-> item.district,
                                       update_count |-> item.update_count,
                                       result |-> r.result,
                                       sends |-> r.sends]
                     /\ delivered' = IF both THEN delivered \cup {h} ELSE delivered
                     /\ cur' = [cur EXCEPT
                                  !.notifyCalled = @ \cup {h},
                                  !.sendsFor =
                                      IF r.sends # <<>> THEN @ \cup {h} ELSE @,
                                  !.notifyFailed =
                                      IF both THEN @ ELSE @ \cup {h}]
    /\ idx' = idx + 1
    /\ UNCHANGED <<district_channels, source, edits, raw, analyzed, pc, run,
                   prev, ingests, migrations, legacy, schedVars, cleanVars, restVars>>

NotifyDone ==
    /\ pc = "notify"
    /\ idx > Len(analyzed)
    /\ pc' = "idle"
    /\ idx' = 1
    /\ UNCHANGED <<district_channels, source, edits, raw, analyzed, sent, run,
                   lastNotify, delivered, cur, prev, ingests, migrations, legacy, schedVars, cleanVars, restVars>>

(* ------------------------------ migration ------------------------------ *)

\* The entries DB_RAW.json can hold, flattened in the order the two loops of
\* migrate_raw_data visit them.
RawEntries ==
    {[district |-> d, content |-> c, updated |-> 0] : d \in Districts, c \in Contents}

\* The entries of DB_ANALYZE.json's "data" list; "goo" may name a district
\* that the district table does not know.
AnalyzedEntries ==
    { [hash |-> "h1", goo |-> "d1", updated |-> 0],
      [hash |-> "h1", goo |-> "d1", updated |-> 1],
      [hash |-> "h2", goo |-> "dX", updated |-> 0] }

\* The sequences over S of at most n entries (the empty one is a missing or
\* empty file).
SeqsUpTo(S, n) == UNION {[1..k -> S] : k \in 0..n}

MigrateRawItem_NoCheck(store, item) ==
    Append(store, [district |-> item.district,
                   content_hash |-> ContentHash(item.content),
                   update_count |-> item.updated])

\* migrate_raw_data, the body of its inner loop: raw_exists, then add_raw
MigrateRawItem(store, item) ==
    IF RawExists(store, item.content, item.district)
    THEN store
    ELSE Append(store, [district |-> item.district,
                        content_hash |-> ContentHash(item.content),
                        update_count |-> item.updated])

RECURSIVE MigrateRawData(_, _)
\* migrate_raw_data: the funeral_raw store after it ran over the entries
MigrateRawData(store, items) ==
    IF items = <<>> THEN store
    ELSE MigrateRawData(MigrateRawItem(store, Head(items)), Tail(items))

RECURSIVE IngestedAll(_, _)
IngestedAll(count, items) ==
    IF items = <<>> THEN count
    ELSE IngestedAll(Ingested(count, Head(items).district, Head(items).content),
                     Tail(items))

\* migrate_analyzed_data: existing_hashes is read once, before the loop; every
\* entry whose hash is not in it is added.
MigrateAnalyzedData(store, items) ==
    LET existing_hashes == {store[i].content_hash : i \in 1..Len(store)}
        to_migrate == SelectSeq(items, LAMBDA it : it.hash \notin existing_hashes)
    IN store \o [i \in 1..Len(to_migrate) |->
                    [content_hash |-> to_migrate[i].hash,
                     district |-> to_migrate[i].goo,
                     update_count |-> to_migrate[i].updated]]

\* migrate_sent_data: existing_sent is read once, before the loop; every hash
\* of the list that is not in it is marked sent.
MigrateSentData(store, hashes) ==
    LET existing_sent == Range(store)
        to_migrate == SelectSeq(hashes, LAMBDA h : h \notin existing_sent)
    IN store \o to_migrate

\* migrate(config, skip_raw) starts: python main.py --migrate [--skip-raw].
\* It returns at once when the store refuses the login.
StartMigrate ==
    /\ pc = "idle"
    /\ migrations < MaxMigrations
    /\ migrations' = migrations + 1
    /\ \E authenticated \in BOOLEAN, skip_raw \in BOOLEAN :
          pc' = IF ~authenticated THEN "idle"
                ELSE IF skip_raw THEN "migrate_analyzed" ELSE "migrate_raw"
    /\ UNCHANGED <<district_channels, source, edits, raw, analyzed, sent, idx,
                   run, lastNotify, delivered, cur, prev, ingests, legacy,
                   schedVars, cleanVars, restVars>>

MigrateRaw ==
    /\ pc = "migrate_raw"
    /\ raw' = MigrateRawData(raw, legacy.raw)
    /\ ingests' = IngestedAll(ingests, legacy.raw)
    /\ pc' = "migrate_analyzed"
    /\ UNCHANGED <<district_channels, source, edits, analyzed, sent, idx, run,
                   lastNotify, delivered, cur, prev, migrations, legacy, schedVars, cleanVars, restVars>>

MigrateAnalyzed ==
    /\ pc = "migrate_analyzed"
    /\ analyzed' = MigrateAnalyzedData(analyzed, legacy.analyzed)
    /\ pc' = "migrate_sent"
    /\ UNCHANGED <<district_channels, source, edits, raw, sent, idx, run,
                   lastNotify, delivered, cur, prev, ingests, migrations, legacy, schedVars, cleanVars, restVars>>

MigrateSent ==
    /\ pc = "migrate_sent"
    /\ sent' = MigrateSentData(sent, legacy.sent)
    /\ pc' = "idle"
    /\ UNCHANGED <<district_channels, source, edits, raw, analyzed, idx, run,
                   lastNotify, delivered, cur, prev, ingests, migrations, legacy, schedVars, cleanVars, restVars>>

Next ==
    \/ EditSource
    \/ StartRun
    \/ RawStep
    \/ RawDone
    \/ AnalyzeStep
    \/ AnalyzeDone
    \/ NotifyStep
    \/ NotifyDone

\* The pipeline, run after run, against a website that changes.
Spec == Init /\ [][Next]_vars

\* The store starts empty; the legacy files hold any entries, and are the
\* same files on every run of the migration.
MigrateInit ==
    /\ district_channels = [D1 |-> "-4130128744", D2 |-> "-4165065871"]
    /\ source = [d1 |-> "c1", d2 |-> "c2"]
    /\ StoreEmpty
    /\ legacy \in [raw : SeqsUpTo(RawEntries, MaxInput),
                   analyzed : SeqsUpTo(AnalyzedEntries, MaxInput),
                   sent : SeqsUpTo(Hashes, MaxInput)]
    /\ SchedCreated
    /\ CleanAtRest
    /\ RestAtRest

MigrateNext ==
    \/ StartMigrate
    \/ MigrateRaw
    \/ MigrateAnalyzed
    \/ MigrateSent

\* The migration, run and run again.
MigrateSpec == MigrateInit /\ [][MigrateNext]_vars

(* ------------------------------ scheduler ------------------------------ *)

\* max_instances of the periodic job, as given to add_job
PeriodicMaxInstances == 1

\* max_instances of the initial job: add_job's default, none is given
InitialMaxInstances == 1

\* The executor's limit of concurrent executions of one job: the job's own
\* max_instances option.
MaxInstancesOf(job_id) ==
    IF job_id = "funeral_scraper_periodic"
    THEN PeriodicMaxInstances ELSE InitialMaxInstances

\* The executor's submit_job: it counts the executions in progress of that job
\* id alone, and refuses (MaxInstancesReachedError, the firing is skipped)
\* when they have reached the job's max_instances.
CanSubmit(job_id) == instances[job_id] < MaxInstancesOf(job_id)

\* A job whose run time has come
PeriodicDue == state = "running" /\ now >= next_run_time

InitialDue == state = "running" /\ initial_due

NextFireAfter_Twice(t, n) == t + 2 * IntervalTicks

\* coalesce=True: the run times missed are rolled into one firing, and the
\* next run time is the first one of the interval grid after now.
NextFireAfter(t, n) ==
    CHOOSE u \in t..(n + IntervalTicks) :
        /\ u > n
        /\ (u - t) % IntervalTicks = 0
        /\ u - IntervalTicks <= n

\* FuneralScheduler.start: registers the periodic job (interval trigger, its
\* first run one interval from now) and the initial job (no trigger: run once,
\* now), and starts the blocking scheduler.
Start ==
    /\ state = "created"
    /\ handler = "none"
    /\ state' = "running"
    /\ next_run_time' = now + IntervalTicks
    /\ initial_due' = TRUE
    /\ UNCHANGED <<now, instances, log, pipelineVars, cleanVars, restVars, on_error_calls, stopVars>>

\* The scheduler's loop finds the initial job due: it hands job_func to the
\* executor and removes the job, whose trigger has no further run time.
FireInitial ==
    /\ InitialDue
    /\ initial_due' = FALSE
    /\ LET j == "funeral_scraper_initial"
       IN IF CanSubmit(j)
          THEN /\ instances' = [instances EXCEPT ![j] = @ + 1]
               /\ log' = [log EXCEPT ![j].started = @ + 1]
          ELSE /\ instances' = instances
               /\ log' = [log EXCEPT ![j].skipped = @ + 1]
    /\ UNCHANGED <<state, now, next_run_time, pipelineVars, cleanVars, restVars, on_error_calls, stopVars>>

\* The scheduler's loop finds the periodic job due: it hands job_func to the
\* executor, or skips the firing when the executor refuses it, and computes
\* the job's next run time.
FirePeriodic ==
    /\ PeriodicDue
    /\ next_run_time' = NextFireAfter(next_run_time, now)
    /\ LET j == "funeral_scraper_periodic"
       IN IF CanSubmit(j)
          THEN /\ instances' = [instances EXCEPT ![j] = @ + 1]
               /\ log' = [log EXCEPT ![j].started = @ + 1]
          ELSE /\ instances' = instances
               /\ log' = [log EXCEPT ![j].skipped = @ + 1]
    /\ UNCHANGED <<state, now, initial_due, pipelineVars, cleanVars, restVars, on_error_calls, stopVars>>

StateAfterJob_Crashed(s, raised, callback_failed) ==
    IF raised THEN "stopped" ELSE s

\* The scheduler after an execution ended: the executor catches what the job
\* raised and turns it into EVENT_JOB_ERROR, the scheduler catches what a
\* listener raised, and on_error of run_scheduler catches what its own send
\* raised: the scheduler's state is what it was
StateAfterJob(s, raised, callback_failed) == s

\* An execution of job_func (Pipeline.run) in a worker thread of the executor
\* ends, after any time: it returns (EVENT_JOB_EXECUTED, logged by
\* _job_executed_listener) or raises (EVENT_JOB_ERROR, logged by
\* _job_error_listener, which calls on_error with the exception; the call
\* may fail).
JobEnds ==
    /\ \E j \in JobIds, raised \in BOOLEAN, callback_failed \in BOOLEAN :
          /\ instances[j] > 0
          /\ callback_failed => raised
          /\ instances' = [instances EXCEPT ![j] = @ - 1]
          /\ log' = IF raised
                    THEN [log EXCEPT ![j].errors = @ + 1]
                    ELSE [log EXCEPT ![j].executed = @ + 1]
          /\ on_error_calls' =
                 IF raised
                 THEN [made |-> on_error_calls.made + 1,
                       failed |-> on_error_calls.failed +
                                      IF callback_failed THEN 1 ELSE 0]
                 ELSE on_error_calls
          /\ state' = StateAfterJob(state, raised, callback_failed)
    /\ UNCHANGED <<now, next_run_time, initial_due, pipelineVars,
                   cleanVars, restVars, stopVars>>

\* Time passes.  The scheduler's loop sleeps until the next run time and
\* processes the due jobs at once when it wakes: no tick while a job is due.
Tick ==
    /\ now < MaxTime
    /\ exited = "no"
    /\ ~PeriodicDue
    /\ ~InitialDue
    /\ now' = now + 1
    /\ UNCHANGED <<state, next_run_time, initial_due, instances, log,
                   pipelineVars, cleanVars, restVars, on_error_calls, stopVars>>

\* Signals delivered to the process at most
MaxSignals == 2

Total(counts) ==
    counts["funeral_scraper_initial"] + counts["funeral_scraper_periodic"]

ShutdownMayReturn_NoWait(running) == TRUE

\* self.scheduler.shutdown(wait=True) returns once the executor's worker
\* threads have finished the executions in progress
ShutdownMayReturn(running) == \A j \in JobIds : running[j] = 0

\* SIGTERM or SIGINT: _shutdown runs in the main thread.  On a running
\* scheduler shutdown(wait=True) marks it stopped and starts waiting for the
\* executor.  On a scheduler not running (not started yet, or stopped by an
\* earlier signal whose handler is still waiting) shutdown raises
\* SchedulerNotRunningError, which leaves the handler and the main thread.
Signal ==
    /\ signals < MaxSignals
    /\ handler \in {"none", "waiting"}
    /\ signals' = signals + 1
    /\ IF state = "running"
       THEN /\ state' = "stopped"
            /\ handler' = "waiting"
            /\ begun' = [started |-> Total([j \in JobIds |-> log[j].started]),
                         running |-> Total(instances)]
       ELSE /\ handler' = "aborted"
            /\ UNCHANGED <<state, begun>>
    /\ UNCHANGED <<now, next_run_time, initial_due, instances, log,
                   on_error_calls, exited, pipelineVars, cleanVars, restVars>>

\* shutdown(wait=True) returns and _shutdown calls sys.exit(0): SystemExit
\* leaves scheduler.start(), FuneralScheduler.start catches it and returns,
\* and the process ends with code 0
ShutdownReturns ==
    /\ handler = "waiting"
    /\ ShutdownMayReturn(instances)
    /\ handler' = "done"
    /\ exited' = "0"
    /\ UNCHANGED <<state, now, next_run_time, initial_due, instances, log,
                   on_error_calls, signals, begun, pipelineVars, cleanVars,
                   restVars>>

\* The error that left the handler reaches main, which logs it and calls
\* sys.exit(1); the interpreter ends once the worker threads have ended
ProcessEnds ==
    /\ handler = "aborted"
    /\ exited = "no"
    /\ \A j \in JobIds : instances[j] = 0
    /\ exited' = "1"
    /\ UNCHANGED <<state, now, next_run_time, initial_due, instances, log,
                   on_error_calls, signals, handler, begun, pipelineVars,
                   cleanVars, restVars>>

SchedInit ==
    /\ PipelineAtRest
    /\ SchedCreated
    /\ CleanAtRest
    /\ RestAtRest

SchedNext ==
    \/ Start
    \/ FireInitial
    \/ FirePeriodic
    \/ JobEnds
    \/ Tick
    \/ Signal
    \/ ShutdownReturns
    \/ ProcessEnds

\* The scheduler alone; the job is any execution of Pipeline.run.
SchedSpec == SchedInit /\ [][SchedNext]_vars

(* ----------------------------- clean-up ----------------------------- *)

\* A text is the sequence of its symbols; "" is <<>>.  A Python value is a
\* record: t its type, s its text (str, int), items its entries (a dict's
\* [k, val] pairs in order, a list's elements as [k |-> "", val]).
Str(text) == [t |-> "str", s |-> text, items |-> <<>>]

None == [t |-> "none", s |-> <<>>, items |-> <<>>]

Num(digits) == [t |-> "int", s |-> digits, items |-> <<>>]

List(elements) ==
    [t |-> "list", s |-> <<>>,
     items |-> [i \in 1..Len(elements) |-> [k |-> "", val |-> elements[i]]]]

Dict(entries) == [t |-> "dict", s |-> <<>>, items |-> entries]

\* TAGS of clean_analyzed_data: 이름, 생년월일, 거주지, 사망일시, 사망장소,
\* 장례일정, 장례장소, 발인일시, 화장일시
TAGS ==
    <<"ireum", "saengnyeonworil", "geojuji", "samangilsi", "samangjangso",
      "jangnyeiljeong", "jangnyejangso", "barinilsi", "hwajangilsi">>

\* The key of the catch-all bucket the prompt asks for, 그 외의 사항, once
\* analyze has stripped its spaces
CatchAllKey == "geuoeuisahang"

\* "추출 실패"
ExtractionFailed == <<"chuchul silpae">>

\* The texts the clean-up replaces by the sentinel: "그 외의 사항", "", "없음"
NoValueTexts == {<<"geu oe-ui sahang">>, <<>>, <<"eopseum">>}

RECURSIVE Join(_, _)
\* sep.join(texts)
Join(sep, texts) ==
    IF texts = <<>> THEN <<>>
    ELSE IF Len(texts) = 1 THEN texts[1]
    ELSE texts[1] \o sep \o Join(sep, Tail(texts))

\* str(value) of Python
PyStr(value) ==
    CASE value.t = "str" -> value.s
      [] value.t = "int" -> value.s
      [] value.t = "none" -> <<"None">>
      [] value.t = "list" -> <<"[">> \o <<"]">>
      [] OTHER -> <<"{">> \o <<"}">>

RECURSIVE convert_value(_)
\* clean_analyzed_data.convert_value
convert_value(value) ==
    CASE value.t = "dict" ->
            Join(<<"\n">>,
                 [i \in 1..Len(value.items) |->
                     <<value.items[i].k>> \o <<":">> \o
                         convert_value(value.items[i].val)])
      [] value.t = "list" ->
            Join(<<",", " ">>,
                 [i \in 1..Len(value.items) |-> PyStr(value.items[i].val)])
      [] value.t = "none" -> ExtractionFailed
      [] OTHER -> PyStr(value)

CleanTag_Unchecked(content, tag) ==
    IF tag \in DOMAIN content THEN convert_value(content[tag])
    ELSE ExtractionFailed

\* The loop body of clean_analyzed_data: the value kept for one tag
CleanTag(content, tag) ==
    LET converted == IF tag \in DOMAIN content
                     THEN convert_value(content[tag])
                     ELSE ExtractionFailed
    IN IF converted \in NoValueTexts THEN ExtractionFailed ELSE converted

CleanAnalyzedData_ReplyKeys(d) ==
    LET content == IF "content" \in DOMAIN d THEN d["content"] ELSE EmptyMapping
    IN [tag \in DOMAIN content |-> CleanTag(content, tag)]

\* clean_analyzed_data: one entry per tag of TAGS
CleanAnalyzedData(d) ==
    LET content == IF "content" \in DOMAIN d THEN d["content"] ELSE EmptyMapping
    IN [tag \in Range(TAGS) |-> CleanTag(content, tag)]

\* The values a reply can hold for a key
ReplyValues ==
    { Str(<<"x">>), Str(<<>>), Str(<<"eopseum">>), Str(<<"geu oe-ui sahang">>),
      None, Num(<<"0">>),
      List(<<>>), List(<<Str(<<"x">>), None>>),
      Dict(<<>>), Dict(<<[k |-> "a", val |-> None]>>) }

ReplyKeys == Range(TAGS) \cup {CatchAllKey}

\* The replies of at most MaxKeys keys
Replies ==
    UNION {[K -> ReplyValues] :
              K \in {S \in SUBSET ReplyKeys : Cardinality(S) <= MaxKeys}}

\* The result of analyze_raw_data, or a mapping without "content"
CleanInputs ==
    {EmptyMapping} \cup {[k \in {"content"} |-> r] : r \in Replies}

CleanInit ==
    /\ PipelineAtRest
    /\ SchedCreated
    /\ RestAtRest
    /\ data \in CleanInputs
    /\ cleaned = EmptyMapping
    /\ cleanDone = FALSE

\* clean_analyzed_data(data) is called
Clean ==
    /\ ~cleanDone
    /\ cleaned' = CleanAnalyzedData(data)
    /\ cleanDone' = TRUE
    /\ UNCHANGED <<data, pipelineVars, schedVars, restVars>>

CleanNext == Clean

\* clean_analyzed_data on every reply of the bounded set
CleanSpec == CleanInit /\ [][CleanNext]_vars

(* ------------------- the notifier in time: night, delay ----------------- *)

MaxClock == 2

\* Calls of send_funeral_notification per thread
MaxCalls == 1

\* TELEGRAM_RATE_LIMIT_DELAY, in seconds
TELEGRAM_RATE_LIMIT_DELAY == 1

\* datetime.time(20, 0) and datetime.time(7, 0)
NightStart == <<20, 0, 0>>

NightEnd == <<7, 0, 0>>

\* t < u for two datetime.time values: hour, minute, second compared in turn
TimeLess(t, u) ==
    \/ t[1] < u[1]
    \/ t[1] = u[1] /\ t[2] < u[2]
    \/ t[1] = u[1] /\ t[2] = u[2] /\ t[3] < u[3]

IsNightTime_Inclusive(t) == TimeLess(NightStart, t) \/ ~TimeLess(NightEnd, t)

\* TelegramService._is_night_time, t being now.time()
IsNightTime(t) == ~TimeLess(t, NightStart) \/ TimeLess(t, NightEnd)

\* The time of day one second after t
NextSecond(t) ==
    IF t[3] < 59 THEN <<t[1], t[2], t[3] + 1>>
    ELSE IF t[2] < 59 THEN <<t[1], t[2] + 1, 0>>
    ELSE IF t[1] < 23 THEN <<t[1] + 1, 0, 0>>
    ELSE <<0, 0, 0>>

\* The times of day the notifier is first used at: the first and the last
\* second of each hour
StartTimes == {<<h, 0, 0>> : h \in 0..23} \cup {<<h, 59, 59>> : h \in 0..23}

\* The request of _send_message: the parameters that vary
SendRequest(chat_id, text, disable_notification) ==
    [chat |-> chat_id, text |-> text,
     disable_notification |-> disable_notification]

SleepAfterSend_Never(outcome) == 0

\* _send_message: time.sleep(TELEGRAM_RATE_LIMIT_DELAY) after a successful
\* send only
SleepAfterSend(outcome) ==
    IF SendMessage(outcome).slept THEN TELEGRAM_RATE_LIMIT_DELAY ELSE 0

ChatOf_DistrictTwice(district_kor, k) ==
    ResolveChannel(district_channels, district_kor)

\* The chat of the k-th send of send_funeral_notification
ChatOf(district_kor, k) ==
    IF k = 1 THEN ResolveChannel(district_channels, district_kor)
    ELSE funeral_main

\* The district names send_funeral_notification is called with: those of
\* DISTRICT_NAMES_KOR_TO_ENG and one that is not among them
InputDistricts == Districts \cup {"d0"}

\* The update counts send_funeral_notification is called with: a new
\* posting, an edited one
UpdateCounts == {0, 1}

\* A thread calls send_funeral_notification: the checks of district and
\* channel, the message, and the reading of the clock by _is_night_time
CallNotify(th, districts, counts) ==
    /\ callers[th].pc \in {"idle", "returned"}
    /\ callers[th].calls < MaxCalls
    /\ \E district_kor \in districts, update_count \in counts :
          LET r == SendFuneralNotification(district_channels, district_kor,
                                           update_count, "ok", "ok")
          IN callers' = [callers EXCEPT ![th] =
                 [pc |-> IF r.sends = <<>> THEN "returned" ELSE "send",
                  district |-> district_kor,
                  message |-> IF r.sends = <<>> THEN "" ELSE r.sends[1].title,
                  read |-> kst,
                  is_night |-> IsNightTime(kst),
                  sends |-> <<>>,
                  completed |-> -1,
                  result |-> FALSE,
                  calls |-> callers[th].calls + 1]]
    /\ UNCHANGED <<kst, elapsed, lastOk, pipelineVars, schedVars, cleanVars,
                   scraperVars, httpVars>>

\* _send_message issues requests.get
SendStart(th) ==
    /\ callers[th].pc = "send"
    /\ LET c == callers[th]
           k == Len(c.sends) + 1
       IN callers' = [callers EXCEPT ![th] =
              [c EXCEPT
                 !.pc = "in_flight",
                 !.sends = Append(@,
                     [request |-> SendRequest(ChatOf(c.district, k), c.message,
                                              c.is_night),
                      sinceLastOk |-> IF lastOk < 0 THEN -1
                                      ELSE elapsed - lastOk,
                      outcome |-> "none",
                      ok |-> FALSE,
                      slept |-> -1])]]
    /\ UNCHANGED <<kst, elapsed, lastOk, pipelineVars, schedVars, cleanVars,
                   scraperVars, httpVars>>

\* The request ends: the API's answer, an HTTP error or an exception
SendEnd(th) ==
    /\ callers[th].pc = "in_flight"
    /\ \E outcome \in SendOutcomes :
          LET c == callers[th]
              k == Len(c.sends)
          IN /\ callers' = [callers EXCEPT ![th] =
                    [c EXCEPT
                       !.pc = "sleep",
                       !.completed = elapsed,
                       !.sends[k] = [@ EXCEPT !.outcome = outcome,
                                              !.ok = SendMessage(outcome).ok]]]
             /\ lastOk' = IF outcome = "ok" THEN elapsed ELSE lastOk
    /\ UNCHANGED <<kst, elapsed, pipelineVars, schedVars, cleanVars,
                   scraperVars, httpVars>>

\* _send_message returns, after its sleep when the send succeeded; after the
\* second one send_funeral_notification returns success1 and success2
SendReturn(th) ==
    /\ callers[th].pc = "sleep"
    /\ LET c == callers[th]
           k == Len(c.sends)
       IN /\ elapsed >= c.completed + SleepAfterSend(c.sends[k].outcome)
          /\ callers' = [callers EXCEPT ![th] =
                [c EXCEPT
                   !.pc = IF k = 2 THEN "returned" ELSE "send",
                   !.completed = -1,
                   !.sends[k] = [@ EXCEPT !.slept = elapsed - c.completed],
                   !.result = IF k = 2
                              THEN SendFuneralNotification(district_channels,
                                       c.district, 0, c.sends[1].outcome,
                                       c.sends[2].outcome).result
                              ELSE FALSE]]
    /\ UNCHANGED <<kst, elapsed, lastOk, pipelineVars, schedVars, cleanVars,
                   scraperVars, httpVars>>

\* A second goes by
Second ==
    /\ elapsed < MaxClock
    /\ elapsed' = elapsed + 1
    /\ kst' = NextSecond(kst)
    /\ UNCHANGED <<callers, lastOk, pipelineVars, schedVars, cleanVars,
                   scraperVars, httpVars>>

NightInit ==
    /\ PipelineAtRest
    /\ SchedCreated
    /\ CleanAtRest
    /\ ScraperAtRest
    /\ HttpAtRest
    /\ kst \in StartTimes
    /\ elapsed = 0
    /\ callers = [th \in Threads |-> NoCall]
    /\ lastOk = -1

NightNext ==
    \/ CallNotify("t1", InputDistricts, UpdateCounts)
    \/ SendStart("t1")
    \/ SendEnd("t1")
    \/ SendReturn("t1")
    \/ Second

\* One caller of the notifier, at any hour of the day
NightSpec == NightInit /\ [][NightNext]_vars

\* The notifier of a configuration in which a district may have no channel,
\* first used by day or by night
NotifyInit ==
    /\ district_channels \in ChannelConfigs
    /\ source = [d1 |-> "c1", d2 |-> "c2"]
    /\ StoreEmpty
    /\ legacy = NoLegacy
    /\ SchedCreated
    /\ CleanAtRest
    /\ ScraperAtRest
    /\ HttpAtRest
    /\ kst \in {<<12, 0, 0>>, <<19, 59, 59>>, <<23, 0, 0>>}
    /\ elapsed = 0
    /\ callers = [th \in Threads |-> NoCall]
    /\ lastOk = -1

\* One caller of the notifier, whatever the district's channel
NotifySpec == NotifyInit /\ [][NightNext]_vars

RateInit ==
    /\ PipelineAtRest
    /\ SchedCreated
    /\ CleanAtRest
    /\ ScraperAtRest
    /\ HttpAtRest
    /\ NotifierAtRest

RateNext ==
    \/ \E th \in Threads : CallNotify(th, Districts, {0})
    \/ \E th \in Threads : SendStart(th)
    \/ \E th \in Threads : SendEnd(th)
    \/ \E th \in Threads : SendReturn(th)
    \/ Second

\* The pipeline's TelegramService used by the scheduler's worker threads
RateSpec == RateInit /\ [][RateNext]_vars

(* ------------------------------- scrapers ------------------------------ *)

\* Listing pages a site has at most, and the value of max_page at most
MaxPages == 3

\* Detail links on a listing page
MaxLinks == 2

\* BaseScraper (link-then-fetch), OnClickScraper (inherits scrape),
\* BlogStyleScraper, PostMethodScraper
Variants == {"base", "onclick", "blog", "post"}

Min(a, b) == IF a < b THEN a ELSE b

ClampLastPage_Discovered(discovered, max_page) == discovered

\* if last_page > max_page: last_page = max_page
ClampLastPage(discovered, max_page) ==
    IF discovered > max_page THEN max_page ELSE discovered

\* parse_urls on the listing page p of the site: its detail URLs
LinksOf(p) == [i \in 1..MaxLinks |-> [page |-> p, link |-> i]]

\* What a fetch through HttpClient can end as: a response, or an exception
FetchOutcomes == {"ok", "exception"}

\* A listing page could not be fetched: client.get, fetch_urls and
\* fetch_list_html are called outside any try, the exception leaves scrape
ListingFailed(outcome) == IF outcome = "exception" THEN "raised" ELSE "list"

\* scrape: the first page is fetched and the number of pages read from it
FetchFirst ==
    /\ spc = "idle"
    /\ requests' = Append(requests, 1)
    /\ \E outcome \in FetchOutcomes :
          IF outcome = "ok"
          THEN /\ spc' = "list"
               /\ last_page' = ClampLastPage(scraper.discovered, scraper.max_page)
               /\ page' = 1
          ELSE /\ spc' = "raised"
               /\ UNCHANGED <<last_page, page>>
    /\ UNCHANGED <<scraper, urls, results, contents, parsed, pipelineVars,
                   schedVars, cleanVars, notifierVars, httpVars>>

\* The text a content container or a listing entry can hold, stripped
Texts == {"", "body"}

ParseUrls_Always(found, p) == LinksOf(p)

\* parse_urls (parse_list_items): without the listing container, no URL
ParseUrls(found, p) == IF found THEN LinksOf(p) ELSE <<>>

ParseContent_Fallback(container, text) == "body"

\* parse_content: without the content container, the empty text
ParseContent(container, text) == IF container THEN text ELSE ""

KeepItem_NonEmpty(variant, content) == content # ""

\* Whether scrape puts {"url", "content"} in its results: parse_list_items
\* keeps an entry only if its content is not empty, the other variants
\* append whatever fetch_content returned
KeepItem(variant, content) == variant = "blog" => content # ""

\* for page in range(1, last_page + 1): the listing page is fetched; the
\* list-embedded variant takes its items from the listing itself
FetchList ==
    /\ spc = "list"
    /\ page <= last_page
    /\ requests' = Append(requests, page)
    /\ \E outcome \in FetchOutcomes, found \in BOOLEAN,
          texts \in [1..MaxLinks -> Texts] :
          IF outcome = "ok"
          THEN LET links == ParseUrls(found, page)
               IN /\ parsed' = [kind |-> "listing", container |-> found,
                                page |-> page, found |-> Len(links),
                                text |-> ""]
                  /\ IF scraper.variant = "blog"
                     THEN LET entries == [i \in 1..Len(links) |->
                                            [item |-> links[i],
                                             content |-> texts[i]]]
                              kept == SelectSeq(entries,
                                        LAMBDA e : KeepItem("blog", e.content))
                          IN /\ results' = results \o
                                   [i \in 1..Len(kept) |-> kept[i].item]
                             /\ contents' = contents \o
                                   [i \in 1..Len(kept) |-> kept[i].content]
                             /\ page' = page + 1
                             /\ UNCHANGED <<spc, urls>>
                     ELSE /\ \A i \in 1..MaxLinks : texts[i] = ""
                          /\ urls' = links
                          /\ spc' = IF links = <<>> THEN "list" ELSE "detail"
                          /\ page' = IF links = <<>> THEN page + 1 ELSE page
                          /\ UNCHANGED <<results, contents>>
          ELSE /\ found
               /\ \A i \in 1..MaxLinks : texts[i] = ""
               /\ spc' = ListingFailed(outcome)
               /\ page' = IF spc' = "list" THEN page + 1 ELSE page
               /\ UNCHANGED <<urls, results, contents, parsed>>
    /\ UNCHANGED <<scraper, last_page, pipelineVars, schedVars, cleanVars,
                   notifierVars, httpVars>>

\* for url in urls: fetch_content inside try/except; a failure is logged
FetchDetail ==
    /\ spc = "detail"
    /\ \E outcome \in FetchOutcomes, container \in BOOLEAN, text \in Texts :
          IF outcome = "ok"
          THEN LET content == ParseContent(container, text)
               IN /\ parsed' = [kind |-> "detail", container |-> container,
                                page |-> page, found |-> 0, text |-> content]
                  /\ results' = IF KeepItem(scraper.variant, content)
                                THEN Append(results, Head(urls)) ELSE results
                  /\ contents' = IF KeepItem(scraper.variant, content)
                                 THEN Append(contents, content) ELSE contents
          ELSE /\ container
               /\ text = ""
               /\ UNCHANGED <<results, contents, parsed>>
    /\ urls' = Tail(urls)
    /\ spc' = IF Len(urls) = 1 THEN "list" ELSE "detail"
    /\ page' = IF Len(urls) = 1 THEN page + 1 ELSE page
    /\ UNCHANGED <<scraper, last_page, requests, pipelineVars, schedVars,
                   cleanVars, notifierVars, httpVars>>

\* return results
ScrapeReturn ==
    /\ spc = "list"
    /\ page > last_page
    /\ spc' = "returned"
    /\ UNCHANGED <<scraper, last_page, page, urls, results, requests,
                   contents, parsed, pipelineVars, schedVars, cleanVars,
                   notifierVars, httpVars>>

ScraperInit ==
    /\ PipelineAtRest
    /\ SchedCreated
    /\ CleanAtRest
    /\ NotifierAtRest
    /\ HttpAtRest
    /\ scraper \in [variant : Variants, max_page : 1..MaxPages,
                    discovered : 1..MaxPages]
    /\ spc = "idle"
    /\ last_page = 0
    /\ page = 0
    /\ urls = <<>>
    /\ results = <<>>
    /\ requests = <<>>
    /\ contents = <<>>
    /\ parsed = NothingParsed

ScraperNext ==
    \/ FetchFirst
    \/ FetchList
    \/ FetchDetail
    \/ ScrapeReturn

\* One call of scrape(max_page) of each scraper variant on each site
ScraperSpec == ScraperInit /\ [][ScraperNext]_vars

(* ------------------------------ HTTP client ---------------------------- *)

\* The default of the timeout parameter of get and post
DefaultTimeout == 30

\* The timeout _get_with_tor and _post_with_tor set by default
TorTimeout == 60

\* HttpClient.BLOCKED_STATUS_CODES
BLOCKED_STATUS_CODES == {403, 429, 503}

\* dict.setdefault(key, value)
SetDefault(d, key, value) ==
    IF key \in DOMAIN d THEN d
    ELSE [k \in DOMAIN d \cup {key} |-> IF k = key THEN value ELSE d[k]]

\* d[key] = value
SetItem(d, key, value) ==
    [k \in DOMAIN d \cup {key} |-> IF k = key THEN value ELSE d[k]]

\* What the server does with a request: it answers with a status that stays
\* the same however often the request is repeated, it refuses the connection,
\* or it accepts the request and sends nothing before the timeout
ServerAnswers ==
    {"200", "403", "429", "503", "404", "500", "refused", "read timeout"}

\* Status of an answer that is one
StatusOf(answer) ==
    CASE answer = "200" -> 200
      [] answer = "403" -> 403
      [] answer = "429" -> 429
      [] answer = "503" -> 503
      [] answer = "404" -> 404
      [] answer = "500" -> 500
      [] OTHER -> 0

\* What session.get / session.post followed by raise_for_status ends as,
\* through the adapter _create_session mounts (Retry(total=3,
\* status_forcelist=[500, 502, 504]), which repeats GET but not POST): a
\* response that passes; an HTTPError with the response's status; for a
\* refused connection a ConnectionError; for a 500 a RetryError once the
\* repeats of a GET are used up, an HTTPError for a POST; for a read timeout
\* the ConnectionError the adapter raises once the repeats of a GET are used
\* up, a ReadTimeout for a POST
SessionOutcome(method, answer) ==
    CASE answer = "200" -> [kind |-> "response", status |-> 200]
      [] answer \in {"403", "429", "503", "404"} ->
            [kind |-> "HTTPError", status |-> StatusOf(answer)]
      [] answer = "500" ->
            IF method = "get" THEN [kind |-> "RetryError", status |-> 0]
            ELSE [kind |-> "HTTPError", status |-> 500]
      [] answer = "refused" -> [kind |-> "ConnectionError", status |-> 0]
      [] OTHER ->
            IF method = "get" THEN [kind |-> "ConnectionError", status |-> 0]
            ELSE [kind |-> "ReadTimeout", status |-> 0]

IsBlocked_Never(error) == FALSE

\* HttpClient._is_blocked, for an HTTPError that carries a response
IsBlocked(error) == error.status \in BLOCKED_STATUS_CODES

FirstRoute_Direct(force_tor) == "direct"

\* if force_tor: return self._get_with_tor(url, **kwargs)
FirstRoute(force_tor) == IF force_tor THEN "proxy" ELSE "direct"

\* The except clauses of get and post: whether the error of the direct
\* attempt leads to the request through Tor
FallsBack(error, enabled) ==
    \/ error.kind = "HTTPError" /\ IsBlocked(error) /\ enabled
    \/ error.kind = "ConnectionError" /\ enabled

\* get or post is called: the defaults of verify and timeout are put in
\* kwargs, then force_tor decides the route
Request ==
    /\ hpc = "idle"
    /\ kwargs' = SetDefault(SetDefault(EmptyMapping, "verify", 0),
                            "timeout", call.timeout)
    /\ hpc' = FirstRoute(call.force_tor)
    /\ UNCHANGED <<call, attempts, fetched, pipelineVars, schedVars, cleanVars,
                   notifierVars, scraperVars>>

\* session.get / session.post directly, raise_for_status, and the except
\* clauses
DirectAttempt ==
    /\ hpc = "direct"
    /\ \E answer \in ServerAnswers :
          LET o == SessionOutcome(call.method, answer)
          IN /\ attempts' = Append(attempts,
                    [route |-> "direct", method |-> call.method,
                     proxies |-> "proxies" \in DOMAIN kwargs,
                     timeout |-> kwargs["timeout"], answer |-> answer,
                     got |-> o])
             /\ IF o.kind = "response"
                THEN hpc' = "returned" /\ fetched' = o
                ELSE IF FallsBack(o, call.enabled)
                THEN hpc' = "proxy" /\ UNCHANGED fetched
                ELSE hpc' = "raised" /\ fetched' = o
    /\ UNCHANGED <<call, kwargs, pipelineVars, schedVars, cleanVars,
                   notifierVars, scraperVars>>

\* _get_with_tor / _post_with_tor: the proxies are set, the timeout
\* defaulted, the request made; its response is returned, its error raised
ProxyAttempt ==
    /\ hpc = "proxy"
    /\ LET kw == SetDefault(SetItem(kwargs, "proxies", 1), "timeout", TorTimeout)
       IN /\ kwargs' = kw
          /\ \E answer \in ServerAnswers :
                LET o == SessionOutcome(call.method, answer)
                IN /\ attempts' = Append(attempts,
                          [route |-> "proxy", method |-> call.method,
                           proxies |-> "proxies" \in DOMAIN kw,
                           timeout |-> kw["timeout"], answer |-> answer,
                           got |-> o])
                   /\ hpc' = IF o.kind = "response" THEN "returned"
                             ELSE "raised"
                   /\ fetched' = o
    /\ UNCHANGED <<call, pipelineVars, schedVars, cleanVars, notifierVars,
                   scraperVars>>

\* The calls of get and post: forced through Tor or not, Tor enabled or
\* not, the caller's own timeout or the default
HttpInit ==
    /\ PipelineAtRest
    /\ SchedCreated
    /\ CleanAtRest
    /\ NotifierAtRest
    /\ ScraperAtRest
    /\ call \in [method : {"get", "post"}, force_tor : BOOLEAN,
                 enabled : BOOLEAN, timeout : {DefaultTimeout, 5}]
    /\ hpc = "idle"
    /\ kwargs = EmptyMapping
    /\ attempts = <<>>
    /\ fetched = NoOutcome

HttpNext ==
    \/ Request
    \/ DirectAttempt
    \/ ProxyAttempt

\* One call of HttpClient.get or HttpClient.post
HttpSpec == HttpInit /\ [][HttpNext]_vars

(* -------------------------------- claims ------------------------------- *)

AnalyzedHashes == {analyzed[i].content_hash : i \in 1..Len(analyzed)}

RawHashes == {raw[i].content_hash : i \in 1..Len(raw)}

\* The records of a store (a sequence) that satisfy Test
CountOf(store, Test(_)) == Cardinality({i \in 1..Len(store) : Test(store[i])})

\* A second full run has started (and maybe finished) and the website did not
\* change since the first of the two started.
SecondRunUnchanged ==
    /\ run >= 2
    /\ cur.full
    /\ prev.full
    /\ edits = prev.srcEdits

\* The hashes whose every analyze call of a run failed
AnalysisFailedIn(r) == r.analyzeFailed \ r.analyzeOk

\* C1: send_funeral_notification returns true exactly when it made both
\* sends, to the district's channel and to the combined channel, and both
\* succeeded; one failed send makes it false whatever the other did.
C1_NotifyTrueIffBothSucceeded ==
    lastNotify.called =>
        (lastNotify.result <=>
            /\ Len(lastNotify.sends) = 2
            /\ lastNotify.sends[1].chat =
                   district_channels[DISTRICT_NAMES_KOR_TO_ENG[lastNotify.district]]
            /\ lastNotify.sends[1].ok
            /\ lastNotify.sends[2].chat = funeral_main
            /\ lastNotify.sends[2].ok)

\* C1 witness: the district send succeeded, the combined send failed, and
\* the call returned false.
C1_Witness ==
    /\ lastNotify.called
    /\ Len(lastNotify.sends) = 2
    /\ lastNotify.sends[1].ok
    /\ ~lastNotify.sends[2].ok
    /\ ~lastNotify.result

\* C2: every sent marker is for a hash that one earlier attempt delivered to
\* both channels; a failed or partly failed attempt creates none.
C2_SentOnlyAfterFullDelivery ==
    \A i \in 1..Len(sent) : sent[i] \in delivered

\* C2 witness: a marker exists, and a hash whose attempt of this run reached
\* one channel at most has none.
C2_Witness ==
    /\ sent # <<>>
    /\ \E h \in cur.sendsFor \cap cur.notifyFailed : h \notin Range(sent)

C5_FailedNotifyRetriedWithoutAnalysis ==
    run >= 2 =>
        \A h \in prev.notifyFailed :
            /\ h \notin cur.sentAtStart
            /\ h \notin cur.analyzeCalled
            /\ (pc = "idle" => h \in cur.notifyCalled)

\* C5 witness: a delivery failed in the cycle before, and the cycle after it,
\* now over, tried again.
C5_Witness ==
    /\ run >= 2
    /\ pc = "idle"
    /\ \E h \in prev.notifyFailed \cap prev.sendsFor : h \in cur.sendsFor

\* C6: a hash whose analysis failed in a cycle (every analyze call for it
\* raised) has no analyzed record, was not notified in that cycle and has no
\* sent marker; when the next cycle starts it is still stored raw and still
\* not analyzed.
C6_FailedAnalysisBlocksItem ==
    /\ \A h \in AnalysisFailedIn(cur) :
          /\ h \notin AnalyzedHashes
          /\ h \notin cur.notifyCalled
          /\ h \notin Range(sent)
    /\ run >= 2 =>
          \A h \in AnalysisFailedIn(prev) :
              /\ h \notin cur.analyzedAtStart
              /\ h \in RawHashes

\* C6 witness: the analysis of a hash failed in the cycle before and
\* succeeded in the cycle after it.
C6_Witness ==
    /\ run >= 2
    /\ \E h \in AnalysisFailedIn(prev) : h \in cur.analyzeOk

\* C7: however often the raw ingestion passed over a (district, content)
\* pair, funeral_raw holds exactly one record for it, and never two for any
\* pair.
C7_OneRawRecordPerPair ==
    \A p \in DOMAIN ingests :
        LET n == CountOf(raw, LAMBDA r : r.district = p[1] /\ r.content_hash = p[2])
        IN /\ n <= 1
           /\ ingests[p] >= 1 => n = 1

\* C7 witness: the ingestion passed twice over a pair.
C7_Witness ==
    \E p \in DOMAIN ingests :
        /\ ingests[p] = 2
        /\ CountOf(raw, LAMBDA r : r.district = p[1] /\ r.content_hash = p[2]) = 1

\* C8 as stated: at most one analyzed record and at most one sent record per
\* content hash, whatever the ingested input lists.
C8_Original ==
    \A h \in Hashes :
        /\ CountOf(analyzed, LAMBDA r : r.content_hash = h) <= 1
        /\ CountOf(sent, LAMBDA r : r = h) <= 1

\* C9: a run makes no notify call for a hash that had its sent marker when the
\* run started, whatever update_count its records carry; update_count
\* chooses the title template of a notification, funeral_new for 0 and
\* funeral_updated otherwise.
C9_SentHashNeverNotifiedAgain ==
    /\ \A h \in cur.sentAtStart : h \notin cur.notifyCalled
    /\ \A i \in 1..Len(lastNotify.sends) :
          lastNotify.sends[i].title =
              IF lastNotify.update_count = 0 THEN "funeral_new" ELSE "funeral_updated"

\* C9 witness: a run is over that found a posting with update_count > 0
\* whose hash was marked sent before the run.
C9_Witness ==
    /\ run >= 2
    /\ pc = "idle"
    /\ \E i \in 1..Len(raw) :
          /\ raw[i].update_count > 0
          /\ raw[i].content_hash \in cur.sentAtStart

\* C4 as stated: never are two executions of the pipeline job in progress,
\* counting the initial job and the periodic job together.
C4_Original ==
    instances["funeral_scraper_initial"] + instances["funeral_scraper_periodic"] <= 1

\* C10: whatever the reply holds (nothing, some tags, other keys such as the
\* catch-all bucket), the mapping clean_analyzed_data returns has exactly the
\* nine tags as its keys.
C10_KeysAreTheTags ==
    cleanDone => DOMAIN cleaned = Range(TAGS)

\* C10 witness: a reply with the catch-all bucket and one tag only was
\* cleaned.
C10_Witness ==
    /\ cleanDone
    /\ "content" \in DOMAIN data
    /\ CatchAllKey \in DOMAIN data["content"]
    /\ Cardinality(DOMAIN data["content"] \cap Range(TAGS)) = 1

\* The cases in which a tag has no value in the reply: absent, null,
\* flattening to the empty string, or a no-applicable-value phrase
HasNoValue(content, tag) ==
    \/ tag \notin DOMAIN content
    \/ content[tag] = None
    \/ convert_value(content[tag]) = <<>>
    \/ content[tag] \in {Str(<<"eopseum">>), Str(<<"geu oe-ui sahang">>)}

\* C11: for every tag the value clean_analyzed_data returns is a string of
\* at least one character, and it is the failure sentinel whenever the tag is
\* absent from the reply, null, flattens to the empty string, or is one of
\* the no-applicable-value phrases.
C11_EveryTagHasAText ==
    cleanDone =>
        LET content == IF "content" \in DOMAIN data THEN data["content"]
                       ELSE EmptyMapping
        IN \A tag \in Range(TAGS) :
              /\ Len(cleaned[tag]) > 0
              /\ HasNoValue(content, tag) => cleaned[tag] = ExtractionFailed

\* C11 witness: a reply was cleaned that holds one tag with an empty text or
\* a no-applicable-value phrase and another tag with null, the other tags
\* being absent.
C11_Witness ==
    /\ cleanDone
    /\ "content" \in DOMAIN data
    /\ \E t1, t2 \in DOMAIN data["content"] \cap Range(TAGS) :
          /\ t1 # t2
          /\ data["content"][t1] \in
                {Str(<<>>), Str(<<"eopseum">>), List(<<>>), Dict(<<>>)}
          /\ data["content"][t2] = None
          /\ cleaned[t1] = ExtractionFailed
          /\ cleaned[t2] = ExtractionFailed

\* Seconds since midnight of a time of day
SecondsOfDay(t) == t[1] * 3600 + t[2] * 60 + t[3]

\* 20:00:00 <= t or t < 07:00:00
InSilentHours(t) == SecondsOfDay(t) >= 72000 \/ SecondsOfDay(t) < 25200

LoopRequests == IF requests = <<>> THEN <<>> ELSE Tail(requests)

\* C13: for every scraper variant, the loop of scrape(max_page) requests the
\* listing pages 1, 2, ... in ascending order, all of 1..min(discovered,
\* max_page) by the time it returns, no listing page above that number is
\* ever requested, and with 3 discovered pages and max_page = 1 only items of
\* page 1 are returned.
C13_PagesUpToTheClamp ==
    LET clamped == Min(scraper.discovered, scraper.max_page)
    IN /\ \A i \in 1..Len(requests) : requests[i] <= clamped
       /\ \A i \in 1..Len(LoopRequests) : LoopRequests[i] = i
       /\ spc = "returned" => Len(LoopRequests) = clamped
       /\ \A i \in 1..Len(results) : results[i].page \in 1..clamped
       /\ (scraper.discovered = 3 /\ scraper.max_page = 1) =>
              \A i \in 1..Len(results) : results[i].page = 1

\* C13 witness: a scraper has returned from scrape(1) on a site of 3 pages
\* with the two items of page 1.
C13_Witness ==
    /\ spc = "returned"
    /\ scraper.discovered = 3
    /\ scraper.max_page = 1
    /\ requests = <<1, 1>>
    /\ results = LinksOf(1)

\* C14 as stated: no failure of a listing page or of a detail URL makes the
\* scrape call end with an exception.
C14_Original == spc # "raised"

\* The call of get or post is over
CallOver == hpc \in {"returned", "raised"}

\* The direct attempt ended with status 403, 429 or 503 or with a
\* connection-level failure
DirectBlocked ==
    /\ attempts # <<>>
    /\ attempts[1].route = "direct"
    /\ \/ attempts[1].got.kind = "ConnectionError"
       \/ attempts[1].got.kind = "HTTPError"
          /\ attempts[1].got.status \in {403, 429, 503}

\* C15: force_tor false and Tor enabled: when the direct attempt ends with
\* status 403, 429 or 503 or with a connection error, the call makes exactly
\* one more request, the same one through the proxy, and returns that
\* request's response or raises its error.
C15_BlockedFallsBackOnce ==
    (CallOver /\ ~call.force_tor /\ call.enabled /\ DirectBlocked) =>
        /\ Len(attempts) = 2
        /\ attempts[2].route = "proxy"
        /\ attempts[2].proxies
        /\ attempts[2].method = attempts[1].method
        /\ fetched = attempts[2].got
        /\ hpc = IF attempts[2].got.kind = "response" THEN "returned" ELSE "raised"

\* C15 witness: a call whose direct attempt got 429 has raised the
\* connection error of its request through the proxy.
C15_Witness ==
    /\ hpc = "raised"
    /\ ~call.force_tor
    /\ call.enabled
    /\ Len(attempts) = 2
    /\ attempts[1].got = [kind |-> "HTTPError", status |-> 429]
    /\ attempts[2].got.kind = "ConnectionError"

\* C16: with force_tor true no request is made directly; the call makes one
\* request, through the proxy, and returns its response or raises its error.
C16_ForcedProxyOnly ==
    call.force_tor =>
        /\ \A i \in 1..Len(attempts) :
              attempts[i].route = "proxy" /\ attempts[i].proxies
        /\ hpc # "direct"
        /\ CallOver =>
              /\ Len(attempts) = 1
              /\ fetched = attempts[1].got
              /\ hpc = IF fetched.kind = "response" THEN "returned" ELSE "raised"

\* C16 witness: a forced call has raised the 403 of its request through the
\* proxy, Tor being disabled in the configuration.
C16_Witness ==
    /\ call.force_tor
    /\ ~call.enabled
    /\ hpc = "raised"
    /\ attempts # <<>>
    /\ attempts[1].got = [kind |-> "HTTPError", status |-> 403]

\* C17 as stated: when the caller passes no timeout, every request through
\* the proxy is made with the 60-second timeout and every direct request
\* with the 30-second one.
C17_Original ==
    call.timeout = DefaultTimeout =>
        \A i \in 1..Len(attempts) :
            attempts[i].timeout =
                IF attempts[i].route = "proxy" THEN 60 ELSE 30

\* C18 as stated: a successful send is followed by the 1-second wait before
\* _send_message returns, and every send of the service starts at least 1
\* second after the service's previous successful send completed.
C18_Original ==
    \A th \in Threads :
        \A k \in 1..Len(callers[th].sends) :
            LET s == callers[th].sends[k]
            IN /\ (s.ok /\ s.slept >= 0) => s.slept >= 1
               /\ s.sinceLastOk >= 0 => s.sinceLastOk >= 1

\* C19: an execution that raises, and an on_error call that fails, leave
\* the scheduler running (only a signal stops it); on_error is called once
\* per failed execution; and a failed execution gives its slot back, so that
\* the later firings of the job are executed and not skipped.
C19_JobErrorsLeaveSchedulerRunning ==
    /\ (signals = 0 /\ state # "created") => state = "running"
    /\ on_error_calls.made = Total([j \in JobIds |-> log[j].errors])
    /\ on_error_calls.failed <= on_error_calls.made
    /\ \A j \in JobIds :
          instances[j] = log[j].started - log[j].executed - log[j].errors

\* C19 witness: the periodic job raised, an on_error call failed, and a
\* later firing of the periodic job is being executed by the running
\* scheduler.
C19_Witness ==
    /\ state = "running"
    /\ log["funeral_scraper_periodic"].errors >= 1
    /\ on_error_calls.failed >= 1
    /\ log["funeral_scraper_periodic"].started >= 2
    /\ instances["funeral_scraper_periodic"] = 1

\* C20: the process exits with code 0 only once _shutdown's
\* shutdown(wait=True) has returned, it returns only when no execution is in
\* progress, the process never ends while one is, and no execution starts
\* after the shutdown began.
C20_GracefulStop ==
    /\ exited = "0" => handler = "done"
    /\ handler = "done" => \A j \in JobIds : instances[j] = 0
    /\ exited # "no" => \A j \in JobIds : instances[j] = 0
    /\ begun # NotBegun =>
          /\ state = "stopped"
          /\ Total([j \in JobIds |-> log[j].started]) = begun.started

\* C20 witness: the process has exited with code 0 after a signal that came
\* while an execution was in progress.
C20_Witness ==
    /\ exited = "0"
    /\ signals = 1
    /\ begun.running >= 1

\* A page was parsed in this step and lacked its container
ParsedWithoutContainer == parsed' # parsed /\ ~parsed'.container

\* C21: a listing page without the listing container yields no detail URL,
\* a detail page without the content container yields the empty text, and
\* the step that parses such a page raises nothing: scrape goes on to the
\* next page, or to the next URL of the page.
C21_MissingContainerIsNotFatal ==
    /\ [](/\ (parsed.kind = "listing" /\ ~parsed.container) => parsed.found = 0
          /\ (parsed.kind = "detail" /\ ~parsed.container) => parsed.text = "")
    /\ [][ParsedWithoutContainer =>
             /\ spc' \in {"list", "detail"}
             /\ parsed'.kind = "listing" =>
                   spc' = "list" /\ page' = page + 1 /\ results' = results
             /\ parsed'.kind = "detail" =>
                   /\ urls' = Tail(urls)
                   /\ page' = IF urls' = <<>> THEN page + 1 ELSE page]_vars

\* C21 witness: the first of two listing pages had no listing container and
\* scrape is about to fetch the second.
C21_Witness ==
    /\ parsed.kind = "listing"
    /\ ~parsed.container
    /\ parsed.page = 1
    /\ spc = "list"
    /\ page = 2
    /\ last_page >= 2

\* The scheduler's loop processes the periodic job in this step
PeriodicFires == state = "running" /\ next_run_time' # next_run_time

\* The firing of this step starts an execution of the periodic job
PeriodicExecutes ==
    /\ instances'["funeral_scraper_periodic"] =
           instances["funeral_scraper_periodic"] + 1
    /\ log'["funeral_scraper_periodic"].started =
           log["funeral_scraper_periodic"].started + 1

\* The firing of this step is skipped, an execution of the periodic job
\* being in progress
PeriodicSkipped ==
    /\ instances["funeral_scraper_periodic"] >= 1
    /\ instances' = instances
    /\ log'["funeral_scraper_periodic"].skipped =
           log["funeral_scraper_periodic"].skipped + 1

\* After start the initial job is run once, at once: while it is due no
\* time passes, it is never skipped, and its run time is ahead of the first
\* interval.
InitialRunsAtOnce ==
    /\ [](state # "created" =>
            /\ log["funeral_scraper_initial"].skipped = 0
            /\ log["funeral_scraper_initial"].started =
                   IF initial_due THEN 0 ELSE 1
            /\ InitialDue => now < next_run_time)
    /\ [][InitialDue => now' = now]_vars

\* C22 as stated: after start the job is executed once at once, and then
\* executed once per interval as long as the scheduler runs.
C22_Original ==
    /\ InitialRunsAtOnce
    /\ [](state = "running" => now <= next_run_time)
    /\ [][PeriodicFires =>
             /\ now = next_run_time
             /\ next_run_time' = next_run_time + IntervalTicks
             /\ PeriodicExecutes]_vars

\* C22, amended: after start the job is executed once at once; then the
\* periodic job fires once per interval, on time, as long as the scheduler
\* runs, and a firing executes the job unless an execution of the periodic
\* job is still in progress, in which case that firing is skipped.
C22_OneFiringPerInterval ==
    /\ InitialRunsAtOnce
    /\ [](state = "running" => now <= next_run_time)
    /\ [][PeriodicFires =>
             /\ now = next_run_time
             /\ next_run_time' = next_run_time + IntervalTicks
             /\ PeriodicExecutes \/ PeriodicSkipped]_vars

\* C22 witness: the initial job was run, the periodic job was executed for
\* two intervals and one of its firings was skipped.
C22_Witness ==
    /\ state = "running"
    /\ log["funeral_scraper_initial"].started = 1
    /\ log["funeral_scraper_periodic"].started >= 2
    /\ log["funeral_scraper_periodic"].skipped >= 1


\* C23 as stated: with Tor disabled in the configuration no request is sent
\* through the proxy, whatever the arguments of the call and whatever the
\* direct attempt ended as.
C23_Original ==
    ~call.enabled =>
        \A i \in 1..Len(attempts) :
            attempts[i].route # "proxy" /\ ~attempts[i].proxies

\* The direct attempt met a 404, a 500 that stays, or a server that sends
\* nothing before the timeout
DirectFailedOtherwise ==
    /\ attempts # <<>>
    /\ attempts[1].route = "direct"
    /\ attempts[1].answer \in {"404", "500", "read timeout"}

\* C24 as stated: with force_tor false, a direct attempt that fails with a
\* 404, with a 500 that persists after the retries or with a read timeout is
\* followed by no request through the proxy, and its error is raised.
C24_Original ==
    (~call.force_tor /\ DirectFailedOtherwise) =>
        /\ Len(attempts) = 1
        /\ hpc = "raised"
        /\ fetched = attempts[1].got


\* C25 as stated: whatever the variant, every item scrape returns has a
\* content that is not empty.
C25_Original ==
    spc = "returned" => \A i \in 1..Len(contents) : contents[i] # ""

\* C25: every item of the list-embedded variant has a content that is not
\* empty, a listing entry without content being left out; the link-based
\* variants append one item for every detail page fetched without error, its
\* content being whatever parse_content returned, the empty text included.
C25_OnlyListEmbeddedFilters ==
    /\ [](/\ Len(contents) = Len(results)
          /\ scraper.variant = "blog" =>
                \A i \in 1..Len(contents) : contents[i] # "")
    /\ [][(scraper.variant # "blog" /\ parsed' # parsed
              /\ parsed'.kind = "detail") =>
             /\ results' = Append(results, Head(urls))
             /\ contents' = Append(contents, parsed'.text)]_vars

\* C25 witness: scrape of a link-based variant has returned an item whose
\* content is empty next to one whose content is not.
C25_Witness ==
    /\ scraper.variant = "base"
    /\ spc = "returned"
    /\ \E i, j \in 1..Len(contents) : contents[i] = "" /\ contents[j] = "body"


\* The district of the call has a channel in the configuration
ChannelResolved(c) ==
    /\ c.district \in DOMAIN DISTRICT_NAMES_KOR_TO_ENG
    /\ district_channels[DISTRICT_NAMES_KOR_TO_ENG[c.district]] # NoChannel

\* C26: once the district's channel is resolved, the call makes exactly two
\* sends, the first to the district's channel and the second to the combined
\* channel, the second whatever the first ended as, both with the text and
\* the silent flag the call computed once.
C26_TwoSendsInOrder ==
    \A th \in Threads :
        LET c == callers[th]
        IN (c.calls > 0 /\ ChannelResolved(c)) =>
              /\ Len(c.sends) <= 2
              /\ c.pc = "returned" <=>
                    (Len(c.sends) = 2 /\ c.sends[2].slept >= 0)
              /\ Len(c.sends) >= 1 =>
                    c.sends[1].request.chat =
                        district_channels[DISTRICT_NAMES_KOR_TO_ENG[c.district]]
              /\ Len(c.sends) = 2 =>
                    /\ c.sends[1].outcome \in SendOutcomes
                    /\ c.sends[2].request.chat = funeral_main
              /\ \A k \in 1..Len(c.sends) :
                    /\ c.sends[k].request.text = c.message
                    /\ c.sends[k].request.text \in
                           {FormatFuneralTitle(n) : n \in UpdateCounts}
                    /\ c.sends[k].request.disable_notification = c.is_night

\* C26 witness: a call by night whose send to the district's channel failed
\* has made its send to the combined channel, which succeeded, and returned.
C26_Witness ==
    LET c == callers["t1"]
    IN /\ c.pc = "returned"
       /\ c.district = "d1"
       /\ c.is_night
       /\ Len(c.sends) = 2
       /\ c.sends[1].outcome = "request_exception"
       /\ c.sends[2].outcome = "ok"
       /\ c.message = FormatFuneralTitle(1)

\* C27: a call for a district that is unknown, or that has no channel in the
\* configuration, returns false and makes no send, to the combined channel
\* no more than to any other.
C27_UnresolvedSendsNothing ==
    \A th \in Threads :
        LET c == callers[th]
        IN (c.calls > 0 /\ ~ChannelResolved(c)) =>
              /\ c.pc = "returned"
              /\ c.result = FALSE
              /\ c.sends = <<>>

\* C27 witness: the call for a known district without channel has returned
\* false, nothing sent.
C27_Witness ==
    LET c == callers["t1"]
    IN /\ c.calls = 1
       /\ c.district = "d2"
       /\ district_channels["D2"] = NoChannel
       /\ c.pc = "returned"
       /\ c.result = FALSE
       /\ c.sends = <<>>

====
